---- MODULE Spec2Model ----
(***************************************************************************)
(* A model of streamgit: the GithubRepoManager adapter                     *)
(* (app/github_repo_manager.py) over a hosting platform, and the command   *)
(* line tool (app/cli.py) built on it.                                     *)
(***************************************************************************)
EXTENDS Integers, Sequences, FiniteSets, TLC

(***************************************************************************)
(* Bounds of the model.                                                    *)
(***************************************************************************)
\* the platform holds at most this many repositories visible to the identity
MaxRepos == 2
\* a repository has at most this many commits
MaxCommits == 2

\* last-update timestamps; two repositories may share one
Times == {1, 2}
\* the limits get_recent_repos and get_repo_commits are called with
Limits == {1, 5}

\* the login of the authenticated identity (self.user.login) and of an
\* organization whose repositories the identity can see
UserLogin == "me"
Owners == {"me", "org"}
Names == {"a", "b"}
\* an argument or a flag that was not given
None == "None"

\* A repository as the platform reports it carries the attributes the
\* adapter reads: owner, name, fork, archived, private, updated_at.
RepoId(r) == <<r.owner, r.name>>

\* The sets of repositories a platform can hold: full names are unique.
\* the identity owns a and b; the organization owns a repository named a too
RepoIds == {<<"me", "a">>, <<"me", "b">>, <<"org", "a">>}
Attrs == [fork : BOOLEAN, archived : BOOLEAN, private : BOOLEAN, updated_at : Times]
MkRepo(id, a) ==
    [owner |-> id[1], name |-> id[2], fork |-> a.fork, archived |-> a.archived,
     private |-> a.private, updated_at |-> a.updated_at]
PlatformsOver(A) ==
    UNION {{{MkRepo(id, f[id]) : id \in I} : f \in [I -> A]} :
              I \in {J \in SUBSET RepoIds : Cardinality(J) <= MaxRepos}}
Platforms == PlatformsOver(Attrs)
\* the repositories create_repo makes are neither forks nor archived
CreatedAttrs == {a \in Attrs : ~a.fork /\ ~a.archived}
\* every repository as create_repo makes it, public and updated at 1
PlainAttrs == {a \in CreatedAttrs : ~a.private /\ a.updated_at = 1}

VARIABLES
    platform,   \* the repositories on the hosting platform visible to the identity
    all_repos,  \* GithubRepoManager.all_repos: the in-memory list
    deleted,    \* the full names delete_repo has removed and nobody created again
    last,       \* the last adapter call: its name, argument, outcome and value
    commit_api, \* what the platform answers to a commit request, per repository
    cli,        \* the command line tool: where main() is, its arguments, its exit
    ex,         \* the last export call: its arguments, the file written, the result
    starred,    \* user.get_starred(): the repositories the identity starred, in order
    app         \* the dashboard (app/app.py): where its script is and what it holds

vars == <<platform, all_repos, deleted, last, commit_api, cli, ex, starred, app>>

\* what the adapter's calls leave alone
env == <<commit_api, cli, ex, starred, app>>

(***************************************************************************)
(* Helpers on sequences.                                                   *)
(***************************************************************************)
Range(s) == {s[i] : i \in 1..Len(s)}

\* s[:n]
Take(s, n) == SubSeq(s, 1, IF n < Len(s) THEN n ELSE Len(s))

(***************************************************************************)
(* user.get_repos(type="all", sort="updated", direction="desc"): every     *)
(* repository the identity can see, most recently updated first. The       *)
(* platform fixes no order among repositories updated at the same time.    *)
(***************************************************************************)
Listings(S) ==
    {s \in [1..Cardinality(S) -> S] :
        /\ \A i, j \in 1..Cardinality(S) : i # j => s[i] # s[j]
        /\ \A i, j \in 1..Cardinality(S) :
               i < j => s[i].updated_at >= s[j].updated_at}

(***************************************************************************)
(* GithubRepoManager.get_repo_stats                                        *)
(***************************************************************************)
total_count(repos) == Len(repos)
\* a slip: the archived flag is counted as the fork flag
fork_count_archived(repos) == Cardinality({i \in 1..Len(repos) : repos[i].archived})
fork_count(repos) == Cardinality({i \in 1..Len(repos) : repos[i].fork})
non_fork_count(repos) == total_count(repos) - fork_count(repos)
archived_count(repos) == Cardinality({i \in 1..Len(repos) : repos[i].archived})
non_archived_count(repos) == total_count(repos) - archived_count(repos)
\* a slip: the "not" of "not repo.private" is lost
public_count_private(repos) == Cardinality({i \in 1..Len(repos) : repos[i].private})
public_count(repos) == Cardinality({i \in 1..Len(repos) : ~repos[i].private})
private_count(repos) == Cardinality({i \in 1..Len(repos) : repos[i].private})
org_count(repos) == Cardinality({i \in 1..Len(repos) : repos[i].owner # UserLogin})
owned_count(repos) == total_count(repos) - org_count(repos)

get_repo_stats(repos) ==
    [Total |-> total_count(repos),
     Owned |-> owned_count(repos),
     Forked |-> fork_count(repos),
     NonFork |-> non_fork_count(repos),
     Archived |-> archived_count(repos),
     NonArchived |-> non_archived_count(repos),
     Public |-> public_count(repos),
     Private |-> private_count(repos),
     FromOrganizations |-> org_count(repos)]

(***************************************************************************)
(* GithubRepoManager.get_repos_dataframe: one row per repository. Reading  *)
(* the attributes of a listed repository makes no request, so the branch   *)
(* for a GithubException is not taken.                                     *)
(***************************************************************************)
\* a slip: the owner's login is compared with the repository's name
DataframeRowOwnerName(r) ==
    [name |-> r.name, is_fork |-> r.fork, is_archived |-> r.archived,
     is_private |-> r.private, updated_at |-> r.updated_at, owner |-> r.owner,
     is_owner |-> (r.owner = r.name)]

DataframeRow(r) ==
    [name |-> r.name, is_fork |-> r.fork, is_archived |-> r.archived,
     is_private |-> r.private, updated_at |-> r.updated_at, owner |-> r.owner,
     is_owner |-> (r.owner = UserLogin)]

get_repos_dataframe(repos) == [i \in 1..Len(repos) |-> DataframeRow(repos[i])]

(***************************************************************************)
(* GithubRepoManager.get_recent_repos: sorted() is stable, also with       *)
(* reverse=True, so repositories with equal updated_at keep their order.   *)
(***************************************************************************)
RECURSIVE InsertDesc(_, _)
InsertDesc(sorted, r) ==
    IF sorted = <<>> THEN <<r>>
    ELSE IF Head(sorted).updated_at >= r.updated_at
         THEN <<Head(sorted)>> \o InsertDesc(Tail(sorted), r)
         ELSE <<r>> \o sorted

RECURSIVE SortedDesc(_)
SortedDesc(repos) ==
    IF repos = <<>> THEN <<>>
    ELSE InsertDesc(SortedDesc(SubSeq(repos, 1, Len(repos) - 1)), repos[Len(repos)])

get_recent_repos(repos, limit) == Take(SortedDesc(repos), limit)

(***************************************************************************)
(* GithubRepoManager.get_repo_commits. What the platform answers to the    *)
(* commit request: the commits, most recent first (a commit is its number  *)
(* in the history), a GithubException with an HTTP status, or a failure    *)
(* that is no GithubException (the connection).                            *)
(***************************************************************************)
EmptyRepoStatus == 409
\* statuses of other failures: not found, server error
OtherStatuses == {404, 500}

RECURSIVE History(_)
History(n) == IF n = 0 THEN <<>> ELSE <<n>> \o History(n - 1)

CommitAnswers ==
    {[kind |-> "commits", status |-> 200, commits |-> History(n)] : n \in 0..MaxCommits}
    \cup {[kind |-> "GithubException", status |-> st, commits |-> <<>>] :
              st \in {EmptyRepoStatus} \cup OtherStatuses}
    \cup {[kind |-> "ConnectionError", status |-> 0, commits |-> <<>>]}

\* a slip: every GithubException is taken for the empty repository
get_repo_commits_any_status(answer, limit) ==
    IF answer.kind = "commits"
    THEN [status |-> "ok", value |-> Take(answer.commits, limit)]
    ELSE IF answer.kind = "GithubException"
         THEN [status |-> "ok", value |-> <<>>]
         ELSE [status |-> "raised", value |-> answer]

\* a slip: the slice [:limit] is lost
get_repo_commits_unlimited(answer, limit) ==
    IF answer.kind = "commits"
    THEN [status |-> "ok", value |-> answer.commits]
    ELSE IF answer.kind = "GithubException" /\ answer.status = EmptyRepoStatus
         THEN [status |-> "ok", value |-> <<>>]
         ELSE [status |-> "raised", value |-> answer]

get_repo_commits(answer, limit) ==
    IF answer.kind = "commits"
    THEN [status |-> "ok", value |-> Take(answer.commits, limit)]
    ELSE IF answer.kind = "GithubException" /\ answer.status = EmptyRepoStatus
         THEN [status |-> "ok", value |-> <<>>]
         ELSE [status |-> "raised", value |-> answer]

(***************************************************************************)
(* The adapter's calls: what each does to the platform, the list and the   *)
(* record of the last call.                                                *)
(***************************************************************************)
Constructed == [op |-> "__init__", arg |-> "", status |-> "ok", value |-> <<>>]

\* a slip: a percentage of the total is computed, which divides by zero
GetRepoStatsPercentCall ==
    /\ last' = IF total_count(all_repos) = 0
               THEN [op |-> "get_repo_stats", arg |-> "", status |-> "raised",
                     value |-> "ZeroDivisionError"]
               ELSE [op |-> "get_repo_stats", arg |-> "", status |-> "ok",
                     value |-> get_repo_stats(all_repos)]
    /\ UNCHANGED <<platform, all_repos, deleted>>

GetRepoStatsCall ==
    /\ last' = [op |-> "get_repo_stats", arg |-> "", status |-> "ok",
                value |-> get_repo_stats(all_repos)]
    /\ UNCHANGED <<platform, all_repos, deleted>>

GetReposDataframeCall ==
    /\ last' = [op |-> "get_repos_dataframe", arg |-> "", status |-> "ok",
                value |-> get_repos_dataframe(all_repos)]
    /\ UNCHANGED <<platform, all_repos, deleted>>

\* a slip: the list itself is cut to the limit
GetRecentReposCallCutting(limit) ==
    /\ last' = [op |-> "get_recent_repos", arg |-> limit, status |-> "ok",
                value |-> get_recent_repos(all_repos, limit)]
    /\ all_repos' = get_recent_repos(all_repos, limit)
    /\ UNCHANGED <<platform, deleted>>

GetRecentReposCall(limit) ==
    /\ last' = [op |-> "get_recent_repos", arg |-> limit, status |-> "ok",
                value |-> get_recent_repos(all_repos, limit)]
    /\ UNCHANGED <<platform, all_repos, deleted>>

GetRepoCommitsCall(repo, limit) ==
    /\ last' = [op |-> "get_repo_commits",
                arg |-> [repo |-> RepoId(repo), limit |-> limit],
                status |-> get_repo_commits(commit_api[RepoId(repo)], limit).status,
                value |-> get_repo_commits(commit_api[RepoId(repo)], limit).value]
    /\ UNCHANGED <<platform, all_repos, deleted>>

(***************************************************************************)
(* refresh_repos: the list is fetched again, unless the request fails.     *)
(***************************************************************************)
RefreshReposCall(fault) ==
    /\ IF fault = "get_repos"
       THEN /\ all_repos' = all_repos
            /\ last' = [op |-> "refresh_repos", arg |-> "", status |-> "raised",
                        value |-> fault]
       ELSE /\ all_repos' \in Listings(platform)
            /\ last' = [op |-> "refresh_repos", arg |-> "", status |-> "ok",
                        value |-> <<>>]
    /\ UNCHANGED <<platform, deleted>>

(***************************************************************************)
(* delete_repo(repo_name): user.get_repo looks the name up under the       *)
(* identity's own login, repo.delete() removes it, refresh_repos fetches   *)
(* the list again. Each of the three requests can fail; a name the         *)
(* identity does not own is not found.                                     *)
(***************************************************************************)
OwnRepo(plat, name) == {r \in plat : RepoId(r) = <<UserLogin, name>>}

DeleteFaults == {"none", "get_repo", "delete", "get_repos"}

\* a slip: the list is not fetched again after the deletion
DeleteRepoCallNoRefresh(repo_name, fault) ==
    IF fault # "none" \/ OwnRepo(platform, repo_name) = {}
    THEN /\ last' = [op |-> "delete_repo", arg |-> repo_name, status |-> "raised",
                     value |-> fault]
         /\ UNCHANGED <<platform, all_repos, deleted>>
    ELSE /\ platform' = platform \ OwnRepo(platform, repo_name)
         /\ deleted' = deleted \cup {<<UserLogin, repo_name>>}
         /\ last' = [op |-> "delete_repo", arg |-> repo_name, status |-> "ok",
                     value |-> <<>>]
         /\ UNCHANGED all_repos

DeleteRepoCall(repo_name, fault) ==
    IF fault = "get_repo" \/ OwnRepo(platform, repo_name) = {}
    THEN /\ last' = [op |-> "delete_repo", arg |-> repo_name, status |-> "raised",
                     value |-> "get_repo"]
         /\ UNCHANGED <<platform, all_repos, deleted>>
    ELSE IF fault = "delete"
    THEN /\ last' = [op |-> "delete_repo", arg |-> repo_name, status |-> "raised",
                     value |-> "delete"]
         /\ UNCHANGED <<platform, all_repos, deleted>>
    ELSE IF fault = "get_repos"
    THEN /\ platform' = platform \ OwnRepo(platform, repo_name)
         /\ last' = [op |-> "delete_repo", arg |-> repo_name, status |-> "raised",
                     value |-> "get_repos"]
         /\ UNCHANGED <<all_repos, deleted>>
    ELSE /\ platform' = platform \ OwnRepo(platform, repo_name)
         /\ all_repos' \in Listings(platform')
         /\ deleted' = deleted \cup {<<UserLogin, repo_name>>}
         /\ last' = [op |-> "delete_repo", arg |-> repo_name, status |-> "ok",
                     value |-> <<>>]

(***************************************************************************)
(* create_repo: one create request under the identity's login, with the    *)
(* keyword arguments built from the caller's; the platform refuses a name  *)
(* the identity already owns. The new repository is the most recently      *)
(* updated one. The in-memory list is not touched.                         *)
(***************************************************************************)
\* the values of description: not given, empty, a text
Descriptions == {None, "", "d"}
\* the values of gitignore_template and license_template
GitignoreTemplates == {None, "", "Python"}
LicenseTemplates == {None, "", "mit"}

\* Python's truth value of an optional text: None and "" are false
Truthy(text) == text # None /\ text # ""

\* kwargs: the four fixed keys, and each template when it is true
create_repo_kwargs(name, description, private, auto_init, gitignore_template, license_template) ==
    (IF Truthy(gitignore_template)
     THEN "gitignore_template" :> gitignore_template ELSE <<>>)
    @@ (IF Truthy(license_template)
        THEN "license_template" :> license_template ELSE <<>>)
    @@ [name |-> name, description |-> description, private |-> private,
        auto_init |-> auto_init]

\* the optional arguments as the caller gave them
Given(description, gitignore_template, license_template) ==
    [description |-> description, gitignore_template |-> gitignore_template,
     license_template |-> license_template]
NewRepo(name, private, t) ==
    [owner |-> UserLogin, name |-> name, fork |-> FALSE, archived |-> FALSE,
     private |-> private, updated_at |-> t]

CreateFaults == {"none", "create_repo"}

\* the platform's clock: a new repository is no older than the others
CreationTimes(plat) == {t \in Times : \A r \in plat : t >= r.updated_at}

\* the platform holds at most MaxRepos repositories
CanCreate(plat, name) == Cardinality(plat) < MaxRepos \/ OwnRepo(plat, name) # {}

CreateRepoCall(name, description, private, auto_init, gitignore_template, license_template, t, fault) ==
    LET kwargs == create_repo_kwargs(name, description, private, auto_init,
                                     gitignore_template, license_template)
        given == Given(description, gitignore_template, license_template)
    IN  IF fault = "create_repo" \/ OwnRepo(platform, name) # {}
        THEN /\ last' = [op |-> "create_repo", arg |-> name, status |-> "raised",
                         value |-> "create_repo", given |-> given,
                         kwargs |-> kwargs]
             /\ UNCHANGED <<platform, all_repos, deleted>>
        ELSE /\ platform' = platform \cup {NewRepo(name, private, t)}
             /\ deleted' = deleted \ {<<UserLogin, name>>}
             /\ last' = [op |-> "create_repo", arg |-> name, status |-> "ok",
                         value |-> NewRepo(name, private, t), given |-> given,
                         kwargs |-> kwargs]
             /\ UNCHANGED all_repos

(***************************************************************************)
(* The adapter in use: the state after construction (__init__ has fetched  *)
(* the list once), and one action per method.                              *)
(***************************************************************************)
NoCommitApi == [id \in RepoIds |-> [kind |-> "commits", status |-> 200, commits |-> <<>>]]
NoCli == [pc |-> "shell"]
NoExport == [fn |-> "none", status |-> "none"]
NoApp == [pc |-> "off"]

Init ==
    /\ platform \in PlatformsOver(CreatedAttrs)
    /\ all_repos \in Listings(platform)
    /\ deleted = {}
    /\ last = Constructed
    /\ commit_api = NoCommitApi
    /\ cli = NoCli
    /\ starred = <<>>
    /\ app = NoApp
    /\ ex = NoExport

GetRepoStats == GetRepoStatsCall /\ UNCHANGED env

GetReposDataframe == GetReposDataframeCall /\ UNCHANGED env

GetRecentRepos == \E limit \in Limits : GetRecentReposCall(limit) /\ UNCHANGED env

RefreshRepos == \E fault \in {"none", "get_repos"} : RefreshReposCall(fault) /\ UNCHANGED env

DeleteRepo ==
    \E repo_name \in Names, fault \in DeleteFaults :
        DeleteRepoCall(repo_name, fault) /\ UNCHANGED env

\* create_repo(name, private=...): the other arguments at their defaults
CreateRepo ==
    \E name \in Names, private \in BOOLEAN, fault \in CreateFaults :
        \E t \in CreationTimes(platform) :
            /\ CanCreate(platform, name)
            /\ CreateRepoCall(name, None, private, FALSE, None, None, t, fault)
            /\ UNCHANGED env

Next ==
    \/ GetRepoStats
    \/ GetReposDataframe
    \/ GetRecentRepos
    \/ RefreshRepos
    \/ DeleteRepo
    \/ CreateRepo

Spec == Init /\ [][Next]_vars

(***************************************************************************)
(* The create requests: public repositories made by create_repo with every *)
(* combination of its optional arguments, by an identity that starts with  *)
(* no repository.                                                          *)
(***************************************************************************)
InitCreate ==
    /\ platform = {}
    /\ all_repos = <<>>
    /\ deleted = {}
    /\ last = Constructed
    /\ commit_api = NoCommitApi
    /\ cli = NoCli
    /\ starred = <<>>
    /\ app = NoApp
    /\ ex = NoExport

CreateRepoWith ==
    \E name \in Names, description \in Descriptions, auto_init \in BOOLEAN,
       gitignore_template \in GitignoreTemplates,
       license_template \in LicenseTemplates, fault \in CreateFaults :
        /\ CanCreate(platform, name)
        /\ CreateRepoCall(name, description, FALSE, auto_init, gitignore_template,
                          license_template, 1, fault)
        /\ UNCHANGED env

NextCreate ==
    \/ CreateRepoWith
    \/ DeleteRepo

SpecCreate == InitCreate /\ [][NextCreate]_vars

(***************************************************************************)
(* The statistics over every list the adapter can hold: the platform's     *)
(* repositories carry every combination of attributes.                     *)
(***************************************************************************)
InitStats ==
    /\ platform \in Platforms
    /\ all_repos \in Listings(platform)
    /\ deleted = {}
    /\ last = Constructed
    /\ commit_api = NoCommitApi
    /\ cli = NoCli
    /\ starred = <<>>
    /\ app = NoApp
    /\ ex = NoExport

NextStats ==
    \/ GetRepoStats
    \/ GetReposDataframe
    \/ GetRecentRepos
    \/ RefreshRepos
    \/ DeleteRepo

SpecStats == InitStats /\ [][NextStats]_vars

(***************************************************************************)
(* The commits of the repositories: each repository's commit request has   *)
(* its answer on the platform.                                             *)
(***************************************************************************)
InitCommits ==
    /\ platform \in PlatformsOver(PlainAttrs)
    /\ all_repos \in Listings(platform)
    /\ deleted = {}
    /\ last = Constructed
    /\ commit_api \in [RepoIds -> CommitAnswers]
    /\ cli = NoCli
    /\ starred = <<>>
    /\ app = NoApp
    /\ ex = NoExport

GetRepoCommits ==
    \E i \in 1..Len(all_repos), limit \in Limits :
        GetRepoCommitsCall(all_repos[i], limit) /\ UNCHANGED env

NextCommits ==
    \/ GetRepoCommits

SpecCommits == InitCommits /\ [][NextCommits]_vars

(***************************************************************************)
(* get_all_commits (app/app.py): the commits of a sequence of              *)
(* repositories in one table, fetched with get_repo_commits and its        *)
(* default limit. Nothing in the loop catches an error.                    *)
(***************************************************************************)
DefaultCommitLimit == 5

\* the rows of one repository's commits
CommitRowsOf(repo, commits) ==
    [i \in 1..Len(commits) |-> [repo |-> repo.name, commit |-> commits[i]]]

\* a slip: a repository whose commits cannot be fetched is skipped
RECURSIVE get_all_commits_skipping(_, _)
get_all_commits_skipping(repos, api) ==
    IF repos = <<>> THEN [status |-> "ok", value |-> <<>>]
    ELSE LET commits == get_repo_commits(api[RepoId(Head(repos))], DefaultCommitLimit)
             rest == get_all_commits_skipping(Tail(repos), api)
         IN  IF commits.status = "raised" THEN rest
             ELSE [status |-> "ok",
                   value |-> CommitRowsOf(Head(repos), commits.value) \o rest.value]

\* the loop from the first repository on: the first error ends it
RECURSIVE get_all_commits(_, _)
get_all_commits(repos, api) ==
    IF repos = <<>> THEN [status |-> "ok", value |-> <<>>]
    ELSE LET commits == get_repo_commits(api[RepoId(Head(repos))], DefaultCommitLimit)
             rest == get_all_commits(Tail(repos), api)
         IN  IF commits.status = "raised" THEN commits
             ELSE IF rest.status = "raised" THEN rest
             ELSE [status |-> "ok",
                   value |-> CommitRowsOf(Head(repos), commits.value) \o rest.value]

\* repositories of the identity only ("Show only owned repositories")
OwnedOnly(repos) ==
    LET Test(repo) == repo.owner = UserLogin
    IN  SelectSeq(repos, Test)

\* "Prepare Commits for Export" on the Activity page, over the recent
\* repositories
GetAllCommits ==
    /\ \E num_recent_repos \in Limits, filter_owned \in BOOLEAN :
          LET recent == get_recent_repos(all_repos, num_recent_repos)
              recent_repos == IF filter_owned THEN OwnedOnly(recent) ELSE recent
              all_commits_df == get_all_commits(recent_repos, commit_api)
          IN  app' = [pc |-> "commits fetched", repos |-> recent_repos,
                      status |-> all_commits_df.status,
                      value |-> all_commits_df.value]
    /\ UNCHANGED <<platform, all_repos, deleted, last, commit_api, cli, ex, starred>>

NextAllCommits ==
    \/ GetRepoCommits
    \/ GetAllCommits

SpecAllCommits == InitCommits /\ [][NextAllCommits]_vars


(***************************************************************************)
(* The limit of get_repo_commits: repositories with histories longer than  *)
(* the default limit, fetched with a limit and without one.                *)
(***************************************************************************)
\* a repository of this specification has at most this many commits
MaxHistory == 6

LongHistories ==
    {[kind |-> "commits", status |-> 200, commits |-> History(n)] : n \in 0..MaxHistory}

InitCommitLimit ==
    /\ platform \in PlatformsOver(PlainAttrs)
    /\ all_repos \in Listings(platform)
    /\ deleted = {}
    /\ last = Constructed
    /\ commit_api \in [RepoIds -> LongHistories]
    /\ cli = NoCli
    /\ ex = NoExport
    /\ starred = <<>>
    /\ app = NoApp

\* get_repo_commits(repo): limit=5
GetRepoCommitsDefault ==
    \E i \in 1..Len(all_repos) :
        GetRepoCommitsCall(all_repos[i], DefaultCommitLimit) /\ UNCHANGED env

NextCommitLimit ==
    \/ GetRepoCommits
    \/ GetRepoCommitsDefault

SpecCommitLimit == InitCommitLimit /\ [][NextCommitLimit]_vars


(***************************************************************************)
(* GithubRepoManager.get_starred_repos: one record per repository of       *)
(* user.get_starred(), in its order. The platform reports a repository's   *)
(* language as a name, or as None when it has detected none.               *)
(***************************************************************************)
\* the identity has starred at most this many repositories
MaxStarred == 2

Languages == {None, "Python", "Go"}
StarCounts == {0, 7}
StarredRepos ==
    [owner : Owners, name : Names, language : Languages, stargazers_count : StarCounts]

\* the lists user.get_starred() can answer: no repository twice
StarredLists(n) ==
    {s \in [1..n -> StarredRepos] :
        \A i, j \in 1..n : i # j => RepoId(s[i]) # RepoId(s[j])}

UNKNOWN == "Unknown"

\* a slip: the language is copied as it is
StarredRecordLanguageCopied(repo) ==
    [name |-> repo.name, owner |-> repo.owner, language |-> repo.language,
     stars |-> repo.stargazers_count]

\* repo.language or "Unknown"
StarredRecord(repo) ==
    [name |-> repo.name, owner |-> repo.owner,
     language |-> IF Truthy(repo.language) THEN repo.language ELSE UNKNOWN,
     stars |-> repo.stargazers_count]

get_starred_repos(starred_repos) ==
    [i \in 1..Len(starred_repos) |-> StarredRecord(starred_repos[i])]

GetStarredReposCall(fault) ==
    /\ last' = IF fault = "get_starred"
               THEN [op |-> "get_starred_repos", arg |-> "", status |-> "raised",
                     value |-> fault]
               ELSE [op |-> "get_starred_repos", arg |-> "", status |-> "ok",
                     value |-> get_starred_repos(starred)]
    /\ UNCHANGED <<platform, all_repos, deleted>>

InitStarred ==
    /\ platform = {}
    /\ all_repos = <<>>
    /\ deleted = {}
    /\ last = Constructed
    /\ commit_api = NoCommitApi
    /\ cli = NoCli
    /\ ex = NoExport
    /\ \E n \in 0..MaxStarred : starred \in StarredLists(n)
    /\ app = NoApp

GetStarredRepos ==
    \E fault \in {"none", "get_starred"} : GetStarredReposCall(fault) /\ UNCHANGED env

NextStarred ==
    \/ GetStarredRepos

SpecStarred == InitStarred /\ [][NextStarred]_vars

(***************************************************************************)
(* Every method of the adapter on one platform: the reads next to the      *)
(* calls that change the platform.                                         *)
(***************************************************************************)
\* the identity has starred nothing, or one repository without a language
FewStarred ==
    {<<>>, <<[owner |-> "org", name |-> "a", language |-> None, stargazers_count |-> 7]>>}

\* every repository answers the commit request the same way: with one
\* commit, as an empty repository, or with a server error
SameCommitAnswers ==
    {[id \in RepoIds |-> answer] :
        answer \in {a \in CommitAnswers :
                       \/ a.kind = "GithubException"
                       \/ a.kind = "commits" /\ Len(a.commits) = 1}}

\* create_repo(name): a public repository
CreateRepoPlain ==
    \E name \in Names, fault \in CreateFaults :
        /\ CanCreate(platform, name)
        /\ CreateRepoCall(name, None, FALSE, FALSE, None, None, 1, fault)
        /\ UNCHANGED env

InitReads ==
    /\ platform \in PlatformsOver(PlainAttrs)
    /\ all_repos \in Listings(platform)
    /\ deleted = {}
    /\ last = Constructed
    /\ commit_api \in SameCommitAnswers
    /\ cli = NoCli
    /\ ex = NoExport
    /\ starred \in FewStarred
    /\ app = NoApp

NextReads ==
    \/ GetRepoStats
    \/ GetReposDataframe
    \/ GetRecentRepos
    \/ GetRepoCommits
    \/ GetStarredRepos
    \/ RefreshRepos
    \/ DeleteRepo
    \/ CreateRepoPlain

SpecReads == InitReads /\ [][NextReads]_vars


(***************************************************************************)
(* File names and exports (app/cli.py). A string is the sequence of its    *)
(* characters.                                                             *)
(***************************************************************************)
\* an output path is made of at most this many pieces
MaxParts == 3

DOT_XLSX == <<".", "x", "l", "s", "x">>
DOT_CSV == <<".", "c", "s", "v">>
UNDERSCORE == <<"_">>
\* output=None
NoPath == <<>>

PathPieces ==
    {<<"r">>, <<"/">>, <<"x">>, DOT_XLSX, DOT_CSV, <<".", "X", "L", "S", "X">>,
     <<".", "x", "l", "s">>}

RECURSIVE PathsOf(_)
PathsOf(n) ==
    IF n = 0 THEN {<<>>}
    ELSE {p \o q : p \in PathsOf(n - 1), q \in PathPieces} \cup PathsOf(n - 1)

\* the output paths a caller gives: not empty
Paths == PathsOf(MaxParts) \ {<<>>}

\* the logins and the categories file names are made for
UserNames == {<<"m", "e">>, <<"t", "e", "s", "t", "u", "s", "e", "r">>}
REPOS == <<"r", "e", "p", "o", "s">>
STARRED_REPOS == <<"s", "t", "a", "r", "r", "e", "d", "_", "r", "e", "p", "o", "s">>
FileTypes == {REPOS, STARRED_REPOS}
\* the days datetime.now() falls on
Dates == [year : {1970, 2025, 9999}, month : {1, 12}, day : {3, 31}]

EndsWith(s, suffix) ==
    Len(s) >= Len(suffix) /\ SubSeq(s, Len(s) - Len(suffix) + 1, Len(s)) = suffix

\* str.replace(old, new): every occurrence, left to right, without overlap
RECURSIVE str_replace(_, _, _)
str_replace(s, old, new) ==
    IF Len(s) < Len(old) THEN s
    ELSE IF SubSeq(s, 1, Len(old)) = old
         THEN new \o str_replace(SubSeq(s, Len(old) + 1, Len(s)), old, new)
         ELSE <<Head(s)>> \o str_replace(Tail(s), old, new)

DigitChars == <<"0", "1", "2", "3", "4", "5", "6", "7", "8", "9">>

\* a number as decimal digits, zero-padded to a width
RECURSIVE ZeroPad(_, _)
ZeroPad(n, width) ==
    IF width = 0 THEN <<>>
    ELSE ZeroPad(n \div 10, width - 1) \o <<DigitChars[(n % 10) + 1]>>

\* a slip: the format of the dashboard's export_to_csv, "%Y-%m-%d"
strftime_Ymd_dashes(today) ==
    ZeroPad(today.year, 4) \o <<"-">> \o ZeroPad(today.month, 2) \o <<"-">>
        \o ZeroPad(today.day, 2)

\* datetime.now().strftime("%Y%m%d")
strftime_Ymd(today) ==
    ZeroPad(today.year, 4) \o ZeroPad(today.month, 2) \o ZeroPad(today.day, 2)

get_default_filename(username, file_type, today) ==
    strftime_Ymd(today) \o UNDERSCORE \o file_type \o UNDERSCORE \o username \o DOT_CSV

(***************************************************************************)
(* export_data and export_stars: the frame is written as CSV when the      *)
(* format is csv or xlsx, and the path is returned. fault says which step  *)
(* fails: the fetch of the starred repositories or the write of the file.  *)
(***************************************************************************)
ExportFormats == {"csv", "xlsx", "json"}
ExportFaults == {"none", "fetch", "to_csv"}

ExportResult(status, written, returned) ==
    [status |-> status, written |-> written, returned |-> returned]

Export(file_type, format, output, username, today, fault) ==
    LET given == IF output = NoPath
                 THEN get_default_filename(username, file_type, today)
                 ELSE output
        csv_path == str_replace(given, DOT_XLSX, DOT_CSV)
    IN  IF fault = "fetch" THEN ExportResult("raised", NoPath, NoPath)
        ELSE IF format = "csv"
        THEN IF fault = "to_csv" THEN ExportResult("raised", NoPath, NoPath)
             ELSE ExportResult("ok", given, given)
        ELSE IF format = "xlsx"
        THEN IF fault = "to_csv" THEN ExportResult("raised", NoPath, NoPath)
             ELSE ExportResult("ok", csv_path, csv_path)
        ELSE ExportResult("ok", NoPath, given)

\* a slip: the xlsx branch writes to the path as given
export_data_keep_path(format, output, username, today, fault) ==
    Export(REPOS, IF format = "xlsx" THEN "csv" ELSE format, output, username, today,
           IF fault = "fetch" THEN "none" ELSE fault)

\* get_repos_dataframe makes no request: nothing to fetch can fail
export_data(format, output, username, today, fault) ==
    Export(REPOS, format, output, username, today,
           IF fault = "fetch" THEN "none" ELSE fault)

\* a slip: the default name is made with the category of export_data
export_stars_named_repos(use_format, output, username, today, fault) ==
    Export(REPOS, use_format, output, username, today, fault)

export_stars(use_format, output, username, today, fault) ==
    Export(STARRED_REPOS, use_format, output, username, today, fault)

ExportRecord(fn, format, output, username, today, fault, result) ==
    [fn |-> fn, format |-> format, output |-> output, username |-> username,
     today |-> today, fault |-> fault, status |-> result.status,
     written |-> result.written, returned |-> result.returned]

\* a call that has not run yet
Called == ExportResult("called", NoPath, NoPath)

\* the login and the day matter only when the file name is made from them
NamingInputs(output) ==
    IF output = NoPath THEN UserNames \X Dates
    ELSE {<<CHOOSE u \in UserNames : Len(u) = 2,
            [year |-> 2025, month |-> 1, day |-> 3]>>}

\* the calls of the export functions and of get_default_filename (with the
\* category in the place of the format), each with its arguments
InitExport ==
    /\ platform = {}
    /\ all_repos = <<>>
    /\ deleted = {}
    /\ last = Constructed
    /\ commit_api = NoCommitApi
    /\ cli = NoCli
    /\ starred = <<>>
    /\ app = NoApp
    /\ \/ \E fn \in {"export_data", "export_stars"}, format \in ExportFormats,
             output \in Paths \cup {NoPath}, fault \in ExportFaults :
              \E ni \in NamingInputs(output) :
                  /\ fn = "export_data" => fault # "fetch"
                  /\ ex = ExportRecord(fn, format, output, ni[1], ni[2], fault, Called)
       \/ \E file_type \in FileTypes, username \in UserNames, today \in Dates :
              ex = ExportRecord("get_default_filename", file_type, NoPath, username, today,
                                "none", Called)

ExportData ==
    /\ ex.fn = "export_data" /\ ex.status = "called"
    /\ ex' = ExportRecord(ex.fn, ex.format, ex.output, ex.username, ex.today, ex.fault,
                          export_data(ex.format, ex.output, ex.username, ex.today, ex.fault))
    /\ UNCHANGED <<platform, all_repos, deleted, last, commit_api, cli, starred, app>>

ExportStars ==
    /\ ex.fn = "export_stars" /\ ex.status = "called"
    /\ ex' = ExportRecord(ex.fn, ex.format, ex.output, ex.username, ex.today, ex.fault,
                          export_stars(ex.format, ex.output, ex.username, ex.today, ex.fault))
    /\ UNCHANGED <<platform, all_repos, deleted, last, commit_api, cli, starred, app>>

GetDefaultFilename ==
    /\ ex.fn = "get_default_filename" /\ ex.status = "called"
    /\ ex' = ExportRecord(ex.fn, ex.format, ex.output, ex.username, ex.today, ex.fault,
                          ExportResult("ok", NoPath,
                                       get_default_filename(ex.username, ex.format, ex.today)))
    /\ UNCHANGED <<platform, all_repos, deleted, last, commit_api, cli, starred, app>>

NextExport ==
    \/ ExportData
    \/ ExportStars
    \/ GetDefaultFilename

SpecExport == InitExport /\ [][NextExport]_vars

(***************************************************************************)
(* The command line tool: main() of app/cli.py. An invocation loads the    *)
(* token, parses the arguments and constructs the adapter (MainStart), and *)
(* then runs the branch of its action, which ends in sys.exit.             *)
(***************************************************************************)
CliActions ==
    {"stats", "list", "create", "delete", "export", "stars", "visualize", "dashboard"}
VisualizationTypes == {"language_distribution", "stars_vs_forks", "creation_timeline"}
\* the --output values of the invocations
CliOutputs == {<<"r">> \o DOT_XLSX, <<"r">>}
CliToday == [year |-> 2025, month |-> 1, day |-> 3]
UserLoginChars == <<"m", "e">>

CliArgs(action, name, data_format, output, type) ==
    [action |-> action, name |-> name, data_format |-> data_format, output |-> output,
     type |-> type]

\* the command lines: each action with the flags its branch reads
CommandLines ==
    {CliArgs(action, None, None, NoPath, None) : action \in {"stats", "list", "dashboard"}}
    \cup {CliArgs(action, name, None, NoPath, None) :
              action \in {"create", "delete"}, name \in Names \cup {None}}
    \cup {CliArgs(action, None, data_format, output, None) :
              action \in {"export", "stars"}, data_format \in {"csv", "xlsx", None},
              output \in CliOutputs \cup {NoPath}}
    \cup {CliArgs("visualize", None, None, output, type) :
              output \in CliOutputs \cup {NoPath},
              type \in {"language_distribution", None}}

Running(args) == [pc |-> "constructed", args |-> args]

\* sys.exit(code), or the end of the process by an exception nobody caught.
\* missing: a flag the branch requires was not given; failed: the action did
\* not do what was asked; report: what was printed about it.
Exited(args, exit_code, missing, failed, report) ==
    [pc |-> "exited", args |-> args, exit_code |-> exit_code, missing |-> missing,
     failed |-> failed, report |-> report]

\* a new process: nothing is left of the adapter and of the calls of the
\* invocation before
MainStart ==
    /\ cli.pc \in {"shell", "exited"}
    /\ \E token \in BOOLEAN, args \in CommandLines, fault \in {"none", "get_repos"} :
          IF ~token
          THEN /\ cli' = Exited(args, 1, FALSE, TRUE, "token not found")
               /\ all_repos' = <<>>
          ELSE IF fault = "get_repos"
          THEN /\ cli' = Exited(args, 1, FALSE, TRUE, "traceback")
               /\ all_repos' = <<>>
          ELSE /\ cli' = Running(args)
               /\ all_repos' \in Listings(platform)
    /\ last' = Constructed
    /\ ex' = NoExport
    /\ UNCHANGED <<platform, deleted, commit_api, starred, app>>

At(action) == cli.pc = "constructed" /\ cli.args.action = action

MainStats ==
    /\ At("stats")
    /\ GetRepoStatsCall
    /\ cli' = Exited(cli.args, 0, FALSE, FALSE, "stats")
    /\ UNCHANGED <<commit_api, ex, starred, app>>

\* the list action: the number found is printed, then the public and private
\* counts with their percentages, which divide by the total: on the empty
\* list a ZeroDivisionError is caught and reported
list_action(repos) ==
    LET total == Len(repos)
        private == Cardinality({i \in 1..Len(repos) : repos[i].private})
        public == total - private
    IN  IF total = 0
        THEN [exit_code |-> 1, found |-> total, counted |-> FALSE,
              Public |-> 0, Private |-> 0, report |-> "Error listing repositories"]
        ELSE [exit_code |-> 0, found |-> total, counted |-> TRUE,
              Public |-> public, Private |-> private, report |-> "list"]

MainList ==
    /\ At("list")
    /\ cli' = LET out == list_action(all_repos)
              IN  Exited(cli.args, out.exit_code, FALSE, out.exit_code # 0, out.report)
    /\ UNCHANGED <<platform, all_repos, deleted, last, commit_api, ex, starred, app>>

MainCreate ==
    /\ At("create")
    /\ IF cli.args.name = None
       THEN /\ cli' = Exited(cli.args, 1, TRUE, FALSE, "name is required")
            /\ UNCHANGED <<platform, all_repos, deleted, last>>
       ELSE \E description \in Descriptions, private \in BOOLEAN,
               fault \in CreateFaults :
                \E t \in CreationTimes(platform) :
                    /\ CanCreate(platform, cli.args.name)
                    /\ CreateRepoCall(cli.args.name, description, private, FALSE,
                                      None, None, t, fault)
                    /\ cli' = IF last'.status = "ok"
                              THEN Exited(cli.args, 0, FALSE, FALSE, "created")
                              ELSE Exited(cli.args, 1, FALSE, TRUE,
                                          "Error creating repository")
    /\ UNCHANGED <<commit_api, ex, starred, app>>

MainDelete ==
    /\ At("delete")
    /\ IF cli.args.name = None
       THEN /\ cli' = Exited(cli.args, 1, TRUE, FALSE, "name is required")
            /\ UNCHANGED <<platform, all_repos, deleted, last>>
       ELSE \E fault \in DeleteFaults :
                /\ DeleteRepoCall(cli.args.name, fault)
                /\ cli' = IF last'.status = "ok"
                          THEN Exited(cli.args, 0, FALSE, FALSE, "deleted")
                          ELSE Exited(cli.args, 1, FALSE, TRUE,
                                      "Error deleting repository")
    /\ UNCHANGED <<commit_api, ex, starred, app>>

MainExport ==
    /\ At("export")
    /\ IF cli.args.data_format = None \/ cli.args.output = NoPath
       THEN /\ cli' = Exited(cli.args, 1, TRUE, FALSE, "format and output are required")
            /\ UNCHANGED <<platform, all_repos, deleted, last, ex>>
       ELSE \E fault \in ExportFaults \ {"fetch"} :
                /\ GetReposDataframeCall
                /\ ex' = ExportRecord("export_data", cli.args.data_format, cli.args.output,
                                      UserLoginChars, CliToday, fault,
                                      export_data(cli.args.data_format, cli.args.output,
                                                  UserLoginChars, CliToday, fault))
                /\ cli' = IF ex'.status = "ok"
                          THEN Exited(cli.args, 0, FALSE, FALSE, "exported")
                          ELSE Exited(cli.args, 1, FALSE, TRUE, "Error exporting data")
    /\ UNCHANGED <<commit_api, starred, app>>

\* the stars branch requires no flag: the format defaults to csv and the
\* output to the default file name
MainStars ==
    /\ At("stars")
    /\ \E fault \in ExportFaults :
          LET use_format == IF cli.args.data_format = None THEN "csv"
                            ELSE cli.args.data_format
          IN  /\ ex' = ExportRecord("export_stars", use_format, cli.args.output,
                                    UserLoginChars, CliToday, fault,
                                    export_stars(use_format, cli.args.output,
                                                 UserLoginChars, CliToday, fault))
              /\ cli' = IF ex'.status = "ok"
                        THEN Exited(cli.args, 0, FALSE, FALSE, "exported")
                        ELSE Exited(cli.args, 1, FALSE, TRUE, "Error exporting stars")
    /\ UNCHANGED <<platform, all_repos, deleted, last, commit_api, starred, app>>

\* visualize() catches what the chart or the image file raises, prints the
\* error and returns False
visualize(fault) == fault = "none"

\* main() does not look at what visualize() returns
MainVisualize ==
    /\ At("visualize")
    /\ IF cli.args.type = None \/ cli.args.output = NoPath
       THEN /\ cli' = Exited(cli.args, 1, TRUE, FALSE, "type and output are required")
            /\ UNCHANGED <<platform, all_repos, deleted, last>>
       ELSE \E fault \in {"none", "write_image"} :
                /\ GetReposDataframeCall
                /\ cli' = IF visualize(fault)
                          THEN Exited(cli.args, 0, FALSE, FALSE, "Visualization saved")
                          ELSE Exited(cli.args, 0, FALSE, TRUE,
                                      "Error generating visualization")
    /\ UNCHANGED <<commit_api, ex, starred, app>>

\* sys.exit(stcli.main()): the exit code is streamlit's
MainDashboard ==
    /\ At("dashboard")
    /\ \E status \in {0, 1} :
          cli' = Exited(cli.args, status, FALSE, status # 0, "streamlit")
    /\ UNCHANGED <<platform, all_repos, deleted, last, commit_api, ex, starred, app>>

InitCli ==
    /\ platform \in PlatformsOver(CreatedAttrs)
    /\ all_repos = <<>>
    /\ deleted = {}
    /\ last = Constructed
    /\ commit_api = NoCommitApi
    /\ cli = NoCli
    /\ starred = <<>>
    /\ app = NoApp
    /\ ex = NoExport

NextCli ==
    \/ MainStart
    \/ MainStats
    \/ MainList
    \/ MainCreate
    \/ MainDelete
    \/ MainExport
    \/ MainStars
    \/ MainVisualize
    \/ MainDashboard

SpecCli == InitCli /\ [][NextCli]_vars

(***************************************************************************)
(* visualize (app/cli.py): the chart of the repositories' table, written   *)
(* as an image file whose name carries the extension of the image format.  *)
(***************************************************************************)
UpperChars ==
    <<"A", "B", "C", "D", "E", "F", "G", "H", "I", "J", "K", "L", "M",
      "N", "O", "P", "Q", "R", "S", "T", "U", "V", "W", "X", "Y", "Z">>
LowerChars ==
    <<"a", "b", "c", "d", "e", "f", "g", "h", "i", "j", "k", "l", "m",
      "n", "o", "p", "q", "r", "s", "t", "u", "v", "w", "x", "y", "z">>

\* str.lower()
LowerChar(c) ==
    IF \E i \in 1..26 : UpperChars[i] = c
    THEN LowerChars[CHOOSE i \in 1..26 : UpperChars[i] = c]
    ELSE c
str_lower(s) == [i \in 1..Len(s) |-> LowerChar(s[i])]

\* --image-format: its choices, png when the flag is not given
PNG == <<"p", "n", "g">>
ImageFormats == {PNG, <<"j", "p", "g">>, <<"s", "v", "g">>, <<"p", "d", "f">>}

ImagePieces ==
    {<<"t">>, <<"/">>, <<".">>, PNG, <<".", "p", "n", "g">>, <<".", "P", "N", "G">>,
     <<".", "P", "n", "g">>, <<".", "j", "p", "g">>}

RECURSIVE ImagePathsOf(_)
ImagePathsOf(n) ==
    IF n = 0 THEN {<<>>}
    ELSE {p \o q : p \in ImagePathsOf(n - 1), q \in ImagePieces} \cup ImagePathsOf(n - 1)

\* the output names a caller gives: not empty
ImagePaths == ImagePathsOf(MaxParts) \ {<<>>}

\* a slip: the output is compared as it is, lower() is lost
ImageNameCaseSensitive(output, img_format) ==
    IF ~EndsWith(output, <<".">> \o img_format)
    THEN output \o <<".">> \o img_format
    ELSE output

\* if not output.lower().endswith(f".{img_format}"): output = f"{output}.{img_format}"
ImageName(output, img_format) ==
    IF ~EndsWith(str_lower(output), <<".">> \o img_format)
    THEN output \o <<".">> \o img_format
    ELSE output

VisualizeFaults == {"none", "chart", "write_image"}

\* what a call of visualize does: the calls of fig.write_image it makes, and
\* the value it returns
VisualizeResult(use_type, output, img_format, fault) ==
    IF use_type \notin VisualizationTypes \/ fault = "chart"
    THEN [status |-> "ok", returned |-> FALSE, write_image |-> <<>>]
    ELSE [status |-> "ok", returned |-> visualize(fault),
          write_image |-> <<[file |-> ImageName(output, img_format),
                             format |-> img_format, raised |-> fault # "none"]>>]

VisualizeRecord(use_type, output, img_format, fault) ==
    [fn |-> "visualize", status |-> "called", use_type |-> use_type, output |-> output,
     img_format |-> img_format, fault |-> fault]

InitVisualize ==
    /\ platform = {}
    /\ all_repos = <<>>
    /\ deleted = {}
    /\ last = Constructed
    /\ commit_api = NoCommitApi
    /\ cli = NoCli
    /\ starred = <<>>
    /\ app = NoApp
    /\ \E use_type \in VisualizationTypes \cup {"unknown"}, output \in ImagePaths,
          img_format \in ImageFormats, fault \in VisualizeFaults :
          ex = VisualizeRecord(use_type, output, img_format, fault)

Visualize ==
    /\ ex.fn = "visualize" /\ ex.status = "called"
    /\ GetReposDataframeCall
    /\ ex' = VisualizeResult(ex.use_type, ex.output, ex.img_format, ex.fault) @@ ex
    /\ UNCHANGED <<commit_api, cli, starred, app>>

NextVisualize ==
    \/ Visualize

SpecVisualize == InitVisualize /\ [][NextVisualize]_vars


(***************************************************************************)
(* The dashboard's Activity page (app/app.py): the commit table built from *)
(* the recent repositories' commits, and the "Show only my commits"        *)
(* filter. A row of the table keeps its index label through the boolean    *)
(* masks.                                                                  *)
(***************************************************************************)
\* the commit table has at most this many rows
MaxRows == 3

\* repo_manager.user.name: the identity's display name, or None
UserDisplayNames == {"Me Myself", None}
\* commit.commit.author.name
Authors == {"me", "Me", "Me Myself", "bob"}

CommitRows == [repo : Names, author : Authors]
\* pd.DataFrame(all_commits): row i carries the index label i - 1
CommitTables(n) ==
    {[i \in 1..n |-> [index |-> i - 1, repo |-> rows[i].repo,
                      author |-> rows[i].author]] : rows \in [1..n -> CommitRows]}

\* df[df["author"].isin(values)] and df[~df["author"].isin(values)]
AuthorIsin(df, values) ==
    LET Test(row) == row.author \in values
    IN  SelectSeq(df, Test)
AuthorNotIsin(df, values) ==
    LET Test(row) == ~(row.author \in values)
    IN  SelectSeq(df, Test)

\* df["repo"].nunique()
nunique_repo(df) == Cardinality({df[i].repo : i \in 1..Len(df)})

owned_repos(df_commits, user_login, user_name) ==
    AuthorIsin(df_commits, {user_login, user_name})

\* a slip: the display name is left out of the second mask
other_repos_login_only(df_commits, user_login, user_name) ==
    AuthorNotIsin(df_commits, {user_login})

other_repos(df_commits, user_login, user_name) ==
    AuthorNotIsin(df_commits, {user_login, user_name})

\* the page before the table is shown: all_commits is not empty
ActivityPage(df_commits, user_name) ==
    [pc |-> "activity", df_commits |-> df_commits, user_name |-> user_name]

InitActivity ==
    /\ platform = {}
    /\ all_repos = <<>>
    /\ deleted = {}
    /\ last = Constructed
    /\ commit_api = NoCommitApi
    /\ cli = NoCli
    /\ ex = NoExport
    /\ starred = <<>>
    /\ \E n \in 1..MaxRows, user_name \in UserDisplayNames :
          \E df_commits \in CommitTables(n) : app = ActivityPage(df_commits, user_name)

\* if show_all_commits and all_commits: the table is shown, filtered when
\* the checkbox is ticked
ShowAllCommits ==
    /\ app.pc = "activity"
    /\ \E filter_user_commits \in BOOLEAN :
          app' = IF filter_user_commits
                 THEN [pc |-> "commits shown", filtered |-> TRUE,
                       all_commits |-> app.df_commits, user_name |-> app.user_name,
                       owned_repos |->
                           owned_repos(app.df_commits, UserLogin, app.user_name),
                       owned_count |->
                           nunique_repo(owned_repos(app.df_commits, UserLogin,
                                                    app.user_name)),
                       other_repos |->
                           other_repos(app.df_commits, UserLogin, app.user_name),
                       other_count |->
                           nunique_repo(other_repos(app.df_commits, UserLogin,
                                                    app.user_name)),
                       df_commits |->
                           owned_repos(app.df_commits, UserLogin, app.user_name)]
                 ELSE [pc |-> "commits shown", filtered |-> FALSE,
                       all_commits |-> app.df_commits, user_name |-> app.user_name,
                       owned_repos |-> <<>>, owned_count |-> 0,
                       other_repos |-> <<>>, other_count |-> 0,
                       df_commits |-> app.df_commits]
    /\ UNCHANGED <<platform, all_repos, deleted, last, commit_api, cli, ex, starred>>

NextActivity ==
    \/ ShowAllCommits

SpecActivity == InitActivity /\ [][NextActivity]_vars

(***************************************************************************)
(* The dashboard's token (app/app.py): initialize_repo_manager runs on     *)
(* every run of the script. It looks for the token in st.session_state,    *)
(* then asks load_token_from_env, then get_token_from_user, and constructs *)
(* the adapter with what it found.                                         *)
(***************************************************************************)
\* a token is named after the place it comes from: the GITHUB_TOKEN variable
\* of the environment, the token.env file of the app directory, the text input
TokenOfEnviron == "token of the environment"
TokenOfFile == "token of token.env"
TokenTyped == "token typed"
Tokens == {TokenOfEnviron, TokenOfFile, TokenTyped}

\* token.env: no such file, a file without GITHUB_TOKEN (None), or its token
Absent == "absent"
TokenFiles == {Absent, None, TokenOfFile}

\* os.getenv("GITHUB_TOKEN") after load_dotenv(env_path), which leaves a
\* variable that is already set as it is
getenv_after_load_dotenv(environ, token_env) ==
    IF environ # None THEN environ ELSE token_env

\* app.py's load_token_from_env: nothing is read unless token.env exists
load_token_from_env(environ, token_env) ==
    IF token_env # Absent THEN getenv_after_load_dotenv(environ, token_env)
    ELSE None

\* get_token_from_user: the text input is shown only when the session is not
\* authenticated; typed is its value
get_token_from_user(authenticated, typed) ==
    IF ~authenticated /\ Truthy(typed) THEN typed ELSE None

\* the dashboard between two runs of its script
Dashboard(token, authenticated, environ, token_env, valid) ==
    [pc |-> "started", token |-> token, authenticated |-> authenticated,
     environ |-> environ, token_env |-> token_env, valid |-> valid,
     prompt_shown |-> FALSE]

\* a slip: the token is removed and the session stays authenticated
construction_failed_still_authenticated(state) ==
    [state EXCEPT !.token = None]

\* a slip: the session is logged out and the token stays
construction_failed_token_kept(state) ==
    [state EXCEPT !.authenticated = FALSE]

\* the except branch of the construction: the token is popped from the session
\* and the session is not authenticated
construction_failed(state) ==
    [state EXCEPT !.token = None, !.authenticated = FALSE]

\* initialize_repo_manager, with the value of the text input should it be shown
initialize_repo_manager(d, typed) ==
    LET session == d.token
        from_env == IF Truthy(session) THEN None
                    ELSE load_token_from_env(d.environ, d.token_env)
        environ == IF ~Truthy(session) /\ d.token_env # Absent
                   THEN getenv_after_load_dotenv(d.environ, d.token_env)
                   ELSE d.environ
        found == IF Truthy(session) THEN session ELSE from_env
        asked == ~Truthy(found)
        shown == asked /\ ~d.authenticated
        from_user == IF asked THEN get_token_from_user(d.authenticated, typed) ELSE None
        token == IF asked THEN from_user ELSE found
        stored == IF Truthy(token) THEN token ELSE session
        logged_in == d.authenticated \/ Truthy(from_user)
        state == [d EXCEPT !.environ = environ, !.prompt_shown = shown]
        record == [session |-> session, authenticated |-> d.authenticated,
                   environ |-> d.environ, token_env |-> d.token_env, typed |-> typed]
    IN  IF Truthy(token)
        THEN IF token \in d.valid
             THEN [used |-> token, result |-> "repo_manager", before |-> record] @@
                  [state EXCEPT !.pc = "initialized", !.token = stored,
                                !.authenticated = TRUE]
             ELSE [used |-> token, result |-> "Error initializing GitHub connection",
                   before |-> record] @@
                  construction_failed([state EXCEPT !.pc = "initialized", !.token = stored,
                                              !.authenticated = logged_in])
        ELSE [used |-> None,
              result |-> IF logged_in THEN "None" ELSE "GitHub Token Required",
              before |-> record] @@
             [state EXCEPT !.pc = "initialized", !.token = stored,
                           !.authenticated = logged_in]

InitDashboard ==
    /\ platform = {}
    /\ all_repos = <<>>
    /\ deleted = {}
    /\ last = Constructed
    /\ commit_api = NoCommitApi
    /\ cli = NoCli
    /\ ex = NoExport
    /\ starred = <<>>
    /\ \E environ \in {None, TokenOfEnviron}, token_env \in TokenFiles,
          valid \in SUBSET Tokens :
          app = Dashboard(None, FALSE, environ, token_env, valid)

\* one run of the script as far as initialize_repo_manager; the text input
\* holds a token only when the run before has shown it
InitializeRepoManager ==
    /\ app.pc \in {"started", "initialized"}
    /\ \E typed \in {None, TokenTyped} :
          /\ typed # None => app.prompt_shown
          /\ app' = initialize_repo_manager(app, typed)
    /\ UNCHANGED <<platform, all_repos, deleted, last, commit_api, cli, ex, starred>>

NextDashboard ==
    \/ InitializeRepoManager

SpecDashboard == InitDashboard /\ [][NextDashboard]_vars

(***************************************************************************)
(* The dashboard's Delete page (app/app.py, delete_repository). Every run  *)
(* of the script constructs the adapter anew; the page offers the names of *)
(* the listed repositories the identity administers, and deletes by name.  *)
(***************************************************************************)
\* repo.permissions.admin: the identity administers its own repositories, and
\* those of the organization that org_admin names
OrgRepoIds == {id \in RepoIds : id[1] # UserLogin}
Admin(repo, org_admin) == repo.owner = UserLogin \/ RepoId(repo) \in org_admin

\* [repo for repo in repos if repo.permissions.admin]: the entries of the
\* select box, whose labels are the names
AdminEntries(repos, org_admin) ==
    LET Test(repo) == Admin(repo, org_admin)
    IN  SelectSeq(repos, Test)

\* what the confirmation text input can hold
Confirmations == Names \cup {""}

DeletePage(org_admin) == [pc |-> "delete page", org_admin |-> org_admin]

\* the page after the run: the entry selected, what was typed and pressed,
\* whether delete_repo was called, what the platform lost, what was shown
DeleteDone(org_admin, selected, confirmation, pressed, requested, removed, shown) ==
    [pc |-> "delete done", org_admin |-> org_admin, selected |-> selected,
     confirmation |-> confirmation, pressed |-> pressed, requested |-> requested,
     removed |-> removed, shown |-> shown]

InitDelete ==
    /\ platform \in PlatformsOver(PlainAttrs)
    /\ all_repos \in Listings(platform)
    /\ deleted = {}
    /\ last = Constructed
    /\ commit_api = NoCommitApi
    /\ cli = NoCli
    /\ ex = NoExport
    /\ starred = <<>>
    /\ \E org_admin \in SUBSET OrgRepoIds : app = DeletePage(org_admin)

\* a new run of the script with the Delete page selected: the adapter is
\* constructed, or the error of its construction is shown
RunDeletePage ==
    /\ app.pc \in {"delete done", "error"}
    /\ \E fault \in {"none", "get_repos"} :
          IF fault = "get_repos"
          THEN /\ all_repos' = <<>>
               /\ app' = [pc |-> "error", org_admin |-> app.org_admin]
          ELSE /\ all_repos' \in Listings(platform)
               /\ app' = DeletePage(app.org_admin)
    /\ last' = Constructed
    /\ UNCHANGED <<platform, deleted, commit_api, cli, ex, starred>>

\* a slip: delete_repo is called whenever the button is pressed
delete_repository_unconfirmed(entry, confirmation, pressed, fault) ==
    IF pressed
    THEN /\ DeleteRepoCall(entry.name, fault)
         /\ app' = DeleteDone(app.org_admin, entry, confirmation, pressed, TRUE,
                              platform \ platform',
                              IF last'.status = "ok" THEN "deleted successfully"
                              ELSE "An error occurred")
    ELSE /\ app' = DeleteDone(app.org_admin, entry, confirmation, pressed, FALSE, {},
                              "warning")
         /\ UNCHANGED <<platform, all_repos, deleted, last>>

\* delete_repository with an entry selected
delete_repository(entry, confirmation, pressed, fault) ==
    IF pressed /\ confirmation = entry.name
    THEN /\ DeleteRepoCall(entry.name, fault)
         /\ app' = DeleteDone(app.org_admin, entry, confirmation, pressed, TRUE,
                              platform \ platform',
                              IF last'.status = "ok" THEN "deleted successfully"
                              ELSE "An error occurred")
    ELSE /\ app' = DeleteDone(app.org_admin, entry, confirmation, pressed, FALSE, {},
                              IF pressed THEN "Confirmation does not match"
                              ELSE "warning")
         /\ UNCHANGED <<platform, all_repos, deleted, last>>

DeleteRepository ==
    /\ app.pc = "delete page"
    /\ LET entries == AdminEntries(all_repos, app.org_admin)
       IN  IF entries = <<>>
           THEN /\ app' = DeleteDone(app.org_admin, None, "", FALSE, FALSE, {}, "nothing")
                /\ UNCHANGED <<platform, all_repos, deleted, last>>
           ELSE \E i \in 1..Len(entries), confirmation \in Confirmations,
                   pressed \in BOOLEAN, fault \in DeleteFaults :
                    delete_repository(entries[i], confirmation, pressed, fault)
    /\ UNCHANGED <<commit_api, cli, ex, starred>>

NextDelete ==
    \/ RunDeletePage
    \/ DeleteRepository

SpecDelete == InitDelete /\ [][NextDelete]_vars


(***************************************************************************)
(* One run of the dashboard's script (app/app.py, main): the adapter is    *)
(* initialized; an error ends the run; with an adapter the selected page   *)
(* and the token input at the bottom are shown, and a token typed there is *)
(* stored before the script is run again; without adapter and error the    *)
(* prompt is offered to a session that is not authenticated.               *)
(***************************************************************************)
\* how the run ended, and whether it has shown the input at the bottom
RunEnd(ended, bottom_shown, d) ==
    [ended |-> ended, bottom_shown |-> bottom_shown] @@ d

\* the errors initialize_repo_manager returns
InitErrors == {"Error initializing GitHub connection", "GitHub Token Required"}

\* main from initialize_repo_manager on; typed and typed_bottom are the values
\* of the two text inputs
main(d, typed, typed_bottom) ==
    LET state == initialize_repo_manager(d, typed)
        again == get_token_from_user(state.authenticated, typed)
    IN  IF state.result \in InitErrors
        THEN RunEnd("error", FALSE, state)
        ELSE IF state.result = "repo_manager"
        THEN IF Truthy(typed_bottom)
             THEN RunEnd("rerun", TRUE,
                         [state EXCEPT !.token = typed_bottom, !.authenticated = TRUE])
             ELSE RunEnd("page", TRUE, state)
        ELSE IF Truthy(again)
        THEN RunEnd("no adapter", FALSE,
                    [state EXCEPT !.token = again, !.authenticated = TRUE,
                                  !.prompt_shown = TRUE])
        ELSE RunEnd("no adapter", FALSE,
                    [state EXCEPT !.prompt_shown = @ \/ ~state.authenticated])

\* what the run before has left on the screen: how it ended and which of the
\* two token inputs it has shown
NoRun == [ended |-> "not run", prompt_shown |-> FALSE, bottom_shown |-> FALSE]
Inputs(d) ==
    [ended |-> d.ended, prompt_shown |-> d.prompt_shown, bottom_shown |-> d.bottom_shown]

InitMain ==
    /\ platform = {}
    /\ all_repos = <<>>
    /\ deleted = {}
    /\ last = Constructed
    /\ commit_api = NoCommitApi
    /\ cli = NoCli
    /\ ex = NoExport
    /\ starred = <<>>
    /\ \E environ \in {None, TokenOfEnviron}, token_env \in TokenFiles,
          valid \in SUBSET Tokens :
          app = [previous |-> NoRun] @@
                RunEnd("not run", FALSE,
                       Dashboard(None, FALSE, environ, token_env, valid))

\* one run of the script; a text input holds a token only when the run before
\* has shown it
Main ==
    /\ \E typed \in {None, TokenTyped}, typed_bottom \in {None, TokenTyped} :
          /\ typed # None => app.prompt_shown
          /\ typed_bottom # None => app.bottom_shown
          /\ app' = [previous |-> Inputs(app)] @@
                     main([x \in DOMAIN app \ {"ended", "bottom_shown", "previous"} |->
                              app[x]],
                          typed, typed_bottom)
    /\ UNCHANGED <<platform, all_repos, deleted, last, commit_api, cli, ex, starred>>

NextMain ==
    \/ Main

SpecMain == InitMain /\ [][NextMain]_vars


(***************************************************************************)
(* The views of one snapshot of the list: get_repo_stats, the rows of      *)
(* get_repos_dataframe with the counts the dashboard's Data page derives   *)
(* from them (app/app.py), and the counts of the CLI's list action.        *)
(***************************************************************************)
\* df["is_owner"].sum() and len(df) - owned_count
data_view(df) ==
    LET owned == Cardinality({i \in 1..Len(df) : df[i].is_owner})
    IN  [owned_count |-> owned, non_owned_count |-> Len(df) - owned]

ViewsOf(repos) ==
    [stats |-> get_repo_stats(repos),
     data |-> data_view(get_repos_dataframe(repos)),
     list |-> list_action(repos)]

InitViews ==
    /\ platform \in Platforms
    /\ all_repos \in Listings(platform)
    /\ deleted = {}
    /\ last = Constructed
    /\ commit_api = NoCommitApi
    /\ cli = NoCli
    /\ ex = NoExport
    /\ starred = <<>>
    /\ app = NoApp

\* the three views are taken of the list as it is
TakeViews ==
    /\ last' = [op |-> "views", arg |-> all_repos, status |-> "ok",
                value |-> ViewsOf(all_repos)]
    /\ UNCHANGED <<platform, all_repos, deleted>>
    /\ UNCHANGED env

NextViews ==
    \/ TakeViews
    \/ RefreshRepos
    \/ DeleteRepo

SpecViews == InitViews /\ [][NextViews]_vars


(***************************************************************************)
(* Properties of the statistics, checked under SpecStats.                  *)
(***************************************************************************)
StatsReturned == last.op = "get_repo_stats" /\ last.status = "ok"

\* C1: the snapshot get_repo_stats returns satisfies the four sums: Owned +
\* From Organizations, Public + Private, Forked + Non-fork and Archived +
\* Non-archived each equal Total.
C1_StatsSums ==
    StatsReturned =>
        /\ last.value.Owned + last.value.FromOrganizations = last.value.Total
        /\ last.value.Public + last.value.Private = last.value.Total
        /\ last.value.Forked + last.value.NonFork = last.value.Total
        /\ last.value.Archived + last.value.NonArchived = last.value.Total

\* a snapshot of a list that a delete_repo left, with a private fork of the
\* organization in it
C1_Witness ==
    /\ StatsReturned
    /\ deleted # {}
    /\ last.value.Total >= 1
    /\ last.value.FromOrganizations >= 1
    /\ last.value.Private >= 1
    /\ last.value.Forked >= 1

IsFork(r) == r.fork
IsArchived(r) == r.archived
IsPrivate(r) == r.private
IsPublic(r) == ~r.private
IsOrg(r) == r.owner # UserLogin
OwnedByUser(r) == r.owner = UserLogin

\* C2: get_repo_stats counts exactly: Total is the length of the in-memory
\* list; Forked, Archived and Private are the numbers of repositories with
\* that flag; Public the number with private false; From Organizations the
\* number whose owner differs from the identity; Owned the number whose
\* owner is the identity.
C2_StatsExact ==
    StatsReturned =>
        /\ last.value.Total = Len(all_repos)
        /\ last.value.Forked = Len(SelectSeq(all_repos, IsFork))
        /\ last.value.Archived = Len(SelectSeq(all_repos, IsArchived))
        /\ last.value.Private = Len(SelectSeq(all_repos, IsPrivate))
        /\ last.value.Public = Len(SelectSeq(all_repos, IsPublic))
        /\ last.value.FromOrganizations = Len(SelectSeq(all_repos, IsOrg))
        /\ last.value.Owned = Len(SelectSeq(all_repos, OwnedByUser))

\* the list of test_get_repo_stats: a private fork of the identity and an
\* archived public repository of somebody else
C2_Witness ==
    /\ StatsReturned
    /\ Len(all_repos) = 2
    /\ \E i, j \in 1..2 :
           /\ all_repos[i].fork /\ ~all_repos[i].archived /\ all_repos[i].private
           /\ all_repos[i].owner = UserLogin
           /\ ~all_repos[j].fork /\ all_repos[j].archived /\ ~all_repos[j].private
           /\ all_repos[j].owner # UserLogin
    /\ last.value.Total = 2
    /\ last.value.Forked = 1
    /\ last.value.Archived = 1
    /\ last.value.Private = 1
    /\ last.value.FromOrganizations = 1

\* C3: on the empty list get_repo_stats returns normally and all nine counts
\* are zero.
C3_EmptyStats ==
    (last.op = "get_repo_stats" /\ all_repos = <<>>) =>
        /\ last.status = "ok"
        /\ \A k \in DOMAIN last.value : last.value[k] = 0
        /\ DOMAIN last.value =
               {"Total", "Owned", "Forked", "NonFork", "Archived", "NonArchived",
                "Public", "Private", "FromOrganizations"}

C3_Witness == StatsReturned /\ all_repos = <<>>

(***************************************************************************)
(* Properties of the list's life cycle, checked under Spec.                *)
(***************************************************************************)
IdsIn(repos) == {RepoId(repos[i]) : i \in 1..Len(repos)}
RowIds(rows) == {<<rows[i].owner, rows[i].name>> : i \in 1..Len(rows)}

\* C4: when delete_repo has returned normally the list has been fetched
\* again, and the deleted repository is in no later read: not in the list,
\* not counted by get_repo_stats, in no row of get_repos_dataframe and not
\* among get_recent_repos.
C4_DeletedAbsent ==
    /\ (last.op = "delete_repo" /\ last.status = "ok") =>
           all_repos \in Listings(platform)
    /\ \A id \in deleted :
           /\ id \notin IdsIn(all_repos)
           /\ StatsReturned =>
                  last.value.Total = Cardinality(IdsIn(all_repos) \ {id})
           /\ last.op = "get_repos_dataframe" => id \notin RowIds(last.value)
           /\ last.op = "get_recent_repos" => id \notin IdsIn(last.value)

\* a read of a list that still holds a repository, after a deletion
C4_Witness ==
    /\ deleted # {}
    /\ last.op = "get_repos_dataframe"
    /\ Len(last.value) >= 1

\* C5: when create_repo has returned normally the list has been refreshed
\* and holds the new repository.
C5_CreatedListed ==
    (last.op = "create_repo" /\ last.status = "ok") =>
        /\ <<UserLogin, last.arg>> \in IdsIn(all_repos)
        /\ all_repos \in Listings(platform)

\* C6: a delete_repo or create_repo that raises changes nothing: the
\* platform's repositories and the in-memory list are what they were before
\* the call.
C6_RaiseChangesNothing ==
    [][(last'.op \in {"delete_repo", "create_repo"} /\ last'.status = "raised")
           => (platform' = platform /\ all_repos' = all_repos)]_vars

(***************************************************************************)
(* Properties of the commit fetch, checked under SpecCommits.              *)
(***************************************************************************)
CommitsCalled == last.op = "get_repo_commits"
CommitsAnswer == commit_api[last.arg.repo]

\* C7: get_repo_commits returns the empty sequence, and does not raise, when
\* the platform reports the repository as empty (status 409); every other
\* failure of the fetch is raised to the caller as it is.
C7_EmptyRepoRecovered ==
    CommitsCalled =>
        /\ (CommitsAnswer.kind = "GithubException" /\ CommitsAnswer.status = 409) =>
               (last.status = "ok" /\ last.value = <<>>)
        /\ (CommitsAnswer.kind # "commits" /\ CommitsAnswer.status # 409) =>
               (last.status = "raised" /\ last.value = CommitsAnswer)

\* a fetch of an empty repository, answered with 409
C7_WitnessEmpty ==
    /\ CommitsCalled
    /\ CommitsAnswer.kind = "GithubException"
    /\ CommitsAnswer.status = 409
    /\ last.status = "ok"

(***************************************************************************)
(* Properties of the exports and the file names, checked under SpecExport. *)
(***************************************************************************)
XlsxExported ==
    /\ ex.fn \in {"export_data", "export_stars"}
    /\ ex.format = "xlsx"
    /\ ex.status = "ok"

\* C9, as claimed: for every output path an xlsx export writes, and returns,
\* a path that ends in .csv and not in .xlsx.
C9_AlwaysCsv ==
    XlsxExported =>
        /\ ex.returned = ex.written
        /\ EndsWith(ex.written, DOT_CSV)
        /\ ~EndsWith(ex.written, DOT_XLSX)

Occurs(s, part) ==
    \E i \in 1..Len(s) : i + Len(part) - 1 <= Len(s) /\ SubSeq(s, i, i + Len(part) - 1) = part

\* C9, amended: an xlsx export writes, and returns, a path that ends in .csv
\* when the output path ends in .xlsx and when no output path is given; the
\* path written never ends in .xlsx, for no ".xlsx" is left in it; any other
\* output path is written as it was given.
C9_XlsxRewritten ==
    XlsxExported =>
        /\ ex.returned = ex.written
        /\ (ex.output = NoPath \/ EndsWith(ex.output, DOT_XLSX)) =>
               EndsWith(ex.written, DOT_CSV)
        /\ ~EndsWith(ex.written, DOT_XLSX)
        /\ ~Occurs(ex.written, DOT_XLSX)
        /\ (ex.output # NoPath /\ ~Occurs(ex.output, DOT_XLSX)) => ex.written = ex.output

\* the export of the tests: test.xlsx becomes test.csv
C9_Witness ==
    /\ XlsxExported
    /\ ex.output = <<"r">> \o DOT_XLSX
    /\ ex.written = <<"r">> \o DOT_CSV

DigitValue(c) == CHOOSE d \in 0..9 : DigitChars[d + 1] = c

RECURSIVE DecimalValue(_)
DecimalValue(digits) ==
    IF digits = <<>> THEN 0
    ELSE 10 * DecimalValue(SubSeq(digits, 1, Len(digits) - 1))
             + DigitValue(digits[Len(digits)])

TESTUSER == <<"t", "e", "s", "t", "u", "s", "e", "r">>

\* C10: get_default_filename returns the eight digits of today's date (year,
\* month, day), an underscore, the category, an underscore, the login and
\* ".csv"; starred_repos / testuser / 2025-01-03 gives
\* 20250103_starred_repos_testuser.csv.
C10_DefaultFilename ==
    (ex.fn = "get_default_filename" /\ ex.status = "ok") =>
        LET name == ex.returned
            c == Len(ex.format)
            u == Len(ex.username)
        IN  /\ Len(name) = 8 + 1 + c + 1 + u + 4
            /\ \A i \in 1..8 : \E d \in 1..10 : name[i] = DigitChars[d]
            /\ DecimalValue(SubSeq(name, 1, 4)) = ex.today.year
            /\ DecimalValue(SubSeq(name, 5, 6)) = ex.today.month
            /\ DecimalValue(SubSeq(name, 7, 8)) = ex.today.day
            /\ name[9] = "_"
            /\ SubSeq(name, 10, 9 + c) = ex.format
            /\ name[10 + c] = "_"
            /\ SubSeq(name, 11 + c, 10 + c + u) = ex.username
            /\ SubSeq(name, 11 + c + u, Len(name)) = <<".", "c", "s", "v">>
            /\ (/\ ex.today = [year |-> 2025, month |-> 1, day |-> 3]
                /\ ex.format = STARRED_REPOS
                /\ ex.username = TESTUSER) =>
                   name = <<"2", "0", "2", "5", "0", "1", "0", "3", "_", "s", "t", "a",
                            "r", "r", "e", "d", "_", "r", "e", "p", "o", "s", "_", "t",
                            "e", "s", "t", "u", "s", "e", "r", ".", "c", "s", "v">>

\* the file name of test_get_default_filename
C10_Witness ==
    /\ ex.fn = "get_default_filename"
    /\ ex.status = "ok"
    /\ ex.today = [year |-> 2025, month |-> 1, day |-> 3]
    /\ ex.format = STARRED_REPOS
    /\ ex.username = TESTUSER
    /\ Len(ex.returned) = 35

(***************************************************************************)
(* Properties of the command line tool, checked under SpecCli.             *)
(***************************************************************************)
\* C8: an invocation exits with code 0 only when the action succeeded, and
\* with code 1 whenever a required flag is missing or the action failed (the
\* API, the export or the generation of the visualization).
C8_ExitCodes ==
    cli.pc = "exited" =>
        /\ cli.exit_code = 0 => (~cli.failed /\ ~cli.missing)
        /\ (cli.missing \/ cli.failed) => cli.exit_code = 1

(***************************************************************************)
(* C11: create_repo leaves out of the create request every optional field  *)
(* the caller did not supply (description, gitignore_template,             *)
(* license_template): a field that was not given is no key of the request, *)
(* and no optional field goes out as null.                                 *)
(***************************************************************************)
OptionalFields == {"description", "gitignore_template", "license_template"}

\* C11: an optional field of create_repo that was not given is no key of the request
C11_OptionalOmitted ==
    last.op = "create_repo" =>
        \A field \in OptionalFields :
            last.given[field] = None => field \notin DOMAIN last.kwargs

(***************************************************************************)
(* C12: get_recent_repos(limit) returns the first limit entries of the     *)
(* list sorted by updated_at descending, and the result does not depend on *)
(* the order the adapter holds the list in: another adapter holding the    *)
(* same repositories in another order (the platform may list repositories  *)
(* updated at the same time either way round) returns the same sequence.   *)
(***************************************************************************)
RecentCalled == last.op = "get_recent_repos" /\ last.status = "ok"

\* C12: the first limit entries by updated_at descending, whatever order the list is held in
C12_OrderIndependent ==
    RecentCalled =>
        /\ Len(last.value) = (IF last.arg < Len(all_repos) THEN last.arg
                              ELSE Len(all_repos))
        /\ \A i, j \in 1..Len(last.value) :
               i < j => last.value[i].updated_at >= last.value[j].updated_at
        /\ \A other \in Listings(Range(all_repos)) :
               get_recent_repos(other, last.arg) = last.value

(***************************************************************************)
(* C13: get_starred_repos returns one record per starred repository, in    *)
(* the platform's order; a record's language is "Unknown" exactly when the *)
(* repository's language is absent, and the repository's own otherwise.    *)
(***************************************************************************)
StarredReturned == last.op = "get_starred_repos" /\ last.status = "ok"

\* C13: one record per starred repository, in order; language is "Unknown" exactly when absent
C13_StarredLanguage ==
    StarredReturned =>
        /\ Len(last.value) = Len(starred)
        /\ \A i \in 1..Len(starred) :
               /\ last.value[i].name = starred[i].name
               /\ last.value[i].owner = starred[i].owner
               /\ (last.value[i].language = "Unknown") <=> (starred[i].language = None)
               /\ starred[i].language # None =>
                      last.value[i].language = starred[i].language

C13_Witness ==
    /\ StarredReturned
    /\ Len(starred) = 2
    /\ starred[1].language = None /\ last.value[1].language = "Unknown"
    /\ starred[2].language = "Go" /\ last.value[2].language = "Go"

(***************************************************************************)
(* C14: the author filter partitions the commit table: every commit is in  *)
(* exactly one of matched (author equal to the identity's login or display *)
(* name, exactly, case included) and unmatched; none is lost or doubled,   *)
(* and the two counts add up to the number of commits.                     *)
(***************************************************************************)
Filtered == app.pc = "commits shown" /\ app.filtered

IndexLabels(df) == {df[i].index : i \in 1..Len(df)}

\* C14: matched and unmatched partition the commit table
C14_AuthorPartition ==
    Filtered =>
        /\ Len(app.owned_repos) + Len(app.other_repos) = Len(app.all_commits)
        /\ Cardinality(IndexLabels(app.owned_repos)) = Len(app.owned_repos)
        /\ Cardinality(IndexLabels(app.other_repos)) = Len(app.other_repos)
        /\ IndexLabels(app.owned_repos) \cap IndexLabels(app.other_repos) = {}
        /\ \A i \in 1..Len(app.all_commits) :
               LET row == app.all_commits[i]
                   mine == row.author = UserLogin \/ row.author = app.user_name
               IN  /\ mine => row \in Range(app.owned_repos)
                   /\ ~mine => row \in Range(app.other_repos)

C14_Witness ==
    /\ Filtered
    /\ app.user_name = "Me Myself"
    /\ \E i, j, k \in 1..Len(app.all_commits) :
          /\ app.all_commits[i].author = "me"
          /\ app.all_commits[j].author = "Me Myself"
          /\ app.all_commits[k].author = "Me"
    /\ Len(app.owned_repos) = 2
    /\ Len(app.other_repos) = 1

(***************************************************************************)
(* C15: get_repos_dataframe returns exactly one row per repository of the  *)
(* in-memory list, in list order, and a row's is_owner is true exactly     *)
(* when the repository's owner login is the identity's login.              *)
(***************************************************************************)
DataframeReturned == last.op = "get_repos_dataframe" /\ last.status = "ok"

\* C15: one row per repository, in list order; is_owner exactly when owner is the identity
C15_DataframeRows ==
    DataframeReturned =>
        /\ Len(last.value) = Len(all_repos)
        /\ \A i \in 1..Len(all_repos) :
               /\ last.value[i].name = all_repos[i].name
               /\ last.value[i].owner = all_repos[i].owner
               /\ last.value[i].updated_at = all_repos[i].updated_at
               /\ last.value[i].is_owner <=> (all_repos[i].owner = UserLogin)

C15_Witness ==
    /\ DataframeReturned
    /\ Len(all_repos) = 2
    /\ all_repos[1].owner = "org" /\ ~last.value[1].is_owner
    /\ all_repos[2].owner = "me" /\ last.value[2].is_owner

(***************************************************************************)
(* C16: when get_all_commits collects the commits of a sequence of         *)
(* repositories, a commit fetch that fails for any of them, other than     *)
(* with the empty-repository status, aborts the whole operation: the error *)
(* propagates and no table is returned, no repository is skipped. An empty *)
(* repository contributes no commit and does not abort.                    *)
(***************************************************************************)
AllCommitsCalled == app.pc = "commits fetched"

\* the commit fetch of this repository fails, and not as an empty repository
FetchFails(repo) ==
    /\ commit_api[RepoId(repo)].kind # "commits"
    /\ ~(/\ commit_api[RepoId(repo)].kind = "GithubException"
         /\ commit_api[RepoId(repo)].status = EmptyRepoStatus)

\* the number of commits the repository contributes
Contribution(repo) ==
    IF commit_api[RepoId(repo)].kind # "commits" THEN 0
    ELSE IF Len(commit_api[RepoId(repo)].commits) < 5
         THEN Len(commit_api[RepoId(repo)].commits) ELSE 5

RowsOfRepo(table, name) == Cardinality({i \in 1..Len(table) : table[i].repo = name})

\* C16: a failing commit fetch, the empty repository apart, aborts get_all_commits
C16_FailureAborts ==
    AllCommitsCalled =>
        IF \E i \in 1..Len(app.repos) : FetchFails(app.repos[i])
        THEN /\ app.status = "raised"
             /\ \E i \in 1..Len(app.repos) :
                   /\ FetchFails(app.repos[i])
                   /\ app.value = commit_api[RepoId(app.repos[i])]
                   /\ \A j \in 1..(i - 1) : ~FetchFails(app.repos[j])
        ELSE /\ app.status = "ok"
             /\ \A name \in Names :
                   RowsOfRepo(app.value, name) =
                       LET SumOf[k \in 0..Len(app.repos)] ==
                               IF k = 0 THEN 0
                               ELSE SumOf[k - 1] +
                                    (IF app.repos[k].name = name
                                     THEN Contribution(app.repos[k]) ELSE 0)
                       IN  SumOf[Len(app.repos)]

\* a repository with commits, then one that fails: nothing is returned
C16_Witness ==
    /\ AllCommitsCalled
    /\ Len(app.repos) = 2
    /\ commit_api[RepoId(app.repos[1])].kind = "commits"
    /\ Len(commit_api[RepoId(app.repos[1])].commits) > 0
    /\ commit_api[RepoId(app.repos[2])].status = 500
    /\ app.status = "raised"

\* an empty repository, then one with commits: the table has the second's
C16_WitnessEmpty ==
    /\ AllCommitsCalled
    /\ Len(app.repos) = 2
    /\ commit_api[RepoId(app.repos[1])].status = EmptyRepoStatus
    /\ Len(commit_api[RepoId(app.repos[2])].commits) = 2
    /\ app.status = "ok"
    /\ Len(app.value) = 2

(***************************************************************************)
(* C17: every API failure during an invocation of the command line tool,   *)
(* the failure to authenticate and fetch the list while the adapter is     *)
(* constructed included, is caught at the command boundary, printed with   *)
(* the fixed error prefix, and ends the process with a non-zero exit code; *)
(* none escapes uncaught.                                                  *)
(***************************************************************************)
\* what the except branches of main print: the prefix "Error ..." and the text
PrefixedReports ==
    {"Error getting stats", "Error listing repositories", "Error creating repository",
     "Error deleting repository", "Error exporting data", "Error exporting stars",
     "Error generating visualization"}

\* a request to the platform failed during this invocation
ApiFailed ==
    /\ cli.pc = "exited"
    /\ \/ cli.report = "traceback"
       \/ last.status = "raised"
       \/ (ex.status = "raised" /\ ex.fault = "fetch")

\* C17: an API failure is caught, printed with the error prefix, and exits non-zero
C17_FailuresCaught ==
    ApiFailed => (cli.exit_code # 0 /\ cli.report \in PrefixedReports)

(***************************************************************************)
(* C18: for format csv or xlsx, export_data and export_stars return        *)
(* exactly the path at which they wrote the CSV file; when no output path  *)
(* is given, that path is the default file name of the category "repos"    *)
(* (export_data) or "starred_repos" (export_stars).                        *)
(***************************************************************************)
Exported ==
    /\ ex.fn \in {"export_data", "export_stars"}
    /\ ex.status = "ok"
    /\ ex.format \in {"csv", "xlsx"}

CategoryOf(fn) == IF fn = "export_data" THEN REPOS ELSE STARRED_REPOS

\* C18: the path returned is the path written; the default name when no output is given
C18_ReturnsWrittenPath ==
    Exported =>
        /\ ex.written # NoPath
        /\ ex.returned = ex.written
        /\ ex.output = NoPath =>
               ex.written = strftime_Ymd(ex.today) \o UNDERSCORE \o CategoryOf(ex.fn)
                            \o UNDERSCORE \o ex.username \o DOT_CSV

C18_Witness ==
    /\ Exported
    /\ ex.fn = "export_stars"
    /\ ex.format = "xlsx"
    /\ ex.output = NoPath
    /\ ex.returned = get_default_filename(ex.username, STARRED_REPOS, ex.today)

(***************************************************************************)
(* C19: on xlsx export the only change made to the caller's output path is *)
(* that its extension .xlsx becomes .csv: the directory part and the base  *)
(* name of the path written are those of the path the caller supplied.     *)
(***************************************************************************)
\* the last place of the character in the path, 0 when it is not there
LastIndexOf(path, ch) ==
    IF \E i \in 1..Len(path) : path[i] = ch
    THEN CHOOSE i \in 1..Len(path) :
             path[i] = ch /\ \A j \in (i + 1)..Len(path) : path[j] # ch
    ELSE 0

\* os.path.split: the directory part with its last separator, and the file
DirPart(path) == SubSeq(path, 1, LastIndexOf(path, "/"))
FilePart(path) == SubSeq(path, LastIndexOf(path, "/") + 1, Len(path))

\* os.path.splitext of the file: the base name, and the extension with its dot
BaseName(path) ==
    IF LastIndexOf(FilePart(path), ".") = 0 THEN FilePart(path)
    ELSE SubSeq(FilePart(path), 1, LastIndexOf(FilePart(path), ".") - 1)
Extension(path) ==
    IF LastIndexOf(FilePart(path), ".") = 0 THEN <<>>
    ELSE SubSeq(FilePart(path), LastIndexOf(FilePart(path), "."), Len(FilePart(path)))

\* C19: on xlsx export only the extension .xlsx of an output path that names a file
\* changes, to .csv
C19_OnlyExtensionRewritten ==
    (XlsxExported /\ ex.output # NoPath /\ FilePart(ex.output) # <<>>) =>
        /\ DirPart(ex.written) = DirPart(ex.output)
        /\ BaseName(ex.written) = BaseName(ex.output)
        /\ Extension(ex.written) =
               (IF Extension(ex.output) = DOT_XLSX THEN DOT_CSV
                ELSE Extension(ex.output))

(***************************************************************************)
(* C20: the token the adapter is built with is chosen in this order: the   *)
(* session value, then the environment variable, then the local token      *)
(* file, then the prompt; a later source is used only when every earlier   *)
(* one yields no token, and an available source is never skipped.          *)
(***************************************************************************)
Initialized == app.pc = "initialized"

\* the first of the four sources that holds a token
FirstAvailable(before) ==
    IF Truthy(before.session) THEN before.session
    ELSE IF Truthy(before.environ) THEN before.environ
    ELSE IF before.token_env # Absent /\ Truthy(before.token_env) THEN before.token_env
    ELSE IF ~before.authenticated /\ Truthy(before.typed) THEN before.typed
    ELSE None

\* C20: the token used is the first available one
C20_TokenPrecedence == Initialized => app.used = FirstAvailable(app.before)

(***************************************************************************)
(* C21: get_repo_commits(repo, limit) returns at most limit commits (5     *)
(* when no limit is given), and they are the first limit entries of the    *)
(* repository's commit sequence, most recent first, in that order.         *)
(***************************************************************************)
CommitsReturned == CommitsCalled /\ last.status = "ok" /\ CommitsAnswer.kind = "commits"

\* C21: the value is the prefix of the commit sequence of length min(limit, all)
C21_FirstLimitCommits ==
    CommitsReturned =>
        /\ Len(last.value) <= last.arg.limit
        /\ Len(last.value) = (IF Len(CommitsAnswer.commits) < last.arg.limit
                              THEN Len(CommitsAnswer.commits) ELSE last.arg.limit)
        /\ \A i \in 1..Len(last.value) : last.value[i] = CommitsAnswer.commits[i]
        /\ \A i \in 1..(Len(last.value) - 1) : last.value[i] > last.value[i + 1]

\* six commits fetched with the default limit: the five most recent
C21_Witness ==
    /\ CommitsReturned
    /\ last.arg.limit = 5
    /\ Len(CommitsAnswer.commits) = 6
    /\ last.value = <<6, 5, 4, 3, 2>>

(***************************************************************************)
(* C22: visualize writes the image to a file name that ends with           *)
(* ".<img_format>" (png by default): the extension is appended when the    *)
(* output given does not already end with it, compared without regard to   *)
(* case, and the name is left as it is otherwise; the image is written     *)
(* exactly once, in the format asked for.                                  *)
(***************************************************************************)
Visualized == ex.fn = "visualize" /\ ex.status = "ok" /\ ex.returned

DotFormat == <<".">> \o ex.img_format

\* the given output ends with the extension, whatever the case of its letters
AlreadyNamed ==
    /\ Len(ex.output) >= Len(DotFormat)
    /\ \A i \in 1..Len(DotFormat) :
          LowerChar(ex.output[Len(ex.output) - Len(DotFormat) + i]) = DotFormat[i]

\* C22: one write_image, to the output with the extension it lacked
C22_ImageFileName ==
    Visualized =>
        /\ Len(ex.write_image) = 1
        /\ ex.write_image[1].format = ex.img_format
        /\ EndsWith(str_lower(ex.write_image[1].file), DotFormat)
        /\ AlreadyNamed => ex.write_image[1].file = ex.output
        /\ ~AlreadyNamed => ex.write_image[1].file = ex.output \o DotFormat

\* the name of the tests, and a name that carries the extension in capitals
C22_Witness ==
    /\ Visualized
    /\ ex.img_format = PNG
    /\ ex.output = <<"t", ".", "P", "N", "G">>
    /\ ex.write_image[1].file = <<"t", ".", "P", "N", "G">>

C22_WitnessAppended ==
    /\ Visualized
    /\ ex.img_format = PNG
    /\ ex.output = <<"t">>
    /\ ex.write_image[1].file = <<"t", ".", "p", "n", "g">>

(***************************************************************************)
(* C23: the adapter's in-memory list changes only at construction and at   *)
(* the refresh done by delete_repo and refresh_repos: get_repo_stats,      *)
(* get_repos_dataframe, get_recent_repos, get_repo_commits and             *)
(* get_starred_repos leave the list, its contents and its order, as it is. *)
(* (The identity is read once, in __init__, and is the same login          *)
(* throughout.)                                                            *)
(***************************************************************************)
ReadOps ==
    {"get_repo_stats", "get_repos_dataframe", "get_recent_repos", "get_repo_commits",
     "get_starred_repos"}

\* C23: a step that changes the list is a refresh_repos or a delete_repo, and
\* a step of a read leaves the list as it is
C23_ReadsLeaveList ==
    [][/\ all_repos' # all_repos => last'.op \in {"refresh_repos", "delete_repo"}
       /\ last'.op \in ReadOps => all_repos' = all_repos]_vars

\* each read has run on a list of two repositories that is behind the platform
C23_Witness ==
    /\ last.op = "get_recent_repos"
    /\ Len(all_repos) = 2
    /\ Range(all_repos) # platform

C23_WitnessCommits ==
    /\ last.op = "get_repo_commits"
    /\ Len(all_repos) = 2

C23_WitnessStarred ==
    /\ last.op = "get_starred_repos"
    /\ Len(all_repos) = 2

(***************************************************************************)
(* C24: the dashboard's delete action deletes exactly the repository the   *)
(* user selected: the repository removed on the platform has the owner and *)
(* the name of the selected list entry, also when the list shows           *)
(* repositories of different owners (the user and an organization) that    *)
(* share a name.                                                           *)
(***************************************************************************)
DeleteRan == app.pc = "delete done" /\ app.shown # "nothing"

\* C24: what the platform lost is the selected entry
C24_DeletesSelected ==
    (DeleteRan /\ app.removed # {}) =>
        \A repo \in app.removed : RepoId(repo) = RepoId(app.selected)


(***************************************************************************)
(* C25: the dashboard calls delete_repo only when the Delete button was    *)
(* pressed and the typed confirmation equals the selected name, and the    *)
(* selected name belongs to a repository of the current in-memory list on  *)
(* which the identity has admin permission; in every other case no delete  *)
(* request is issued.                                                      *)
(***************************************************************************)
\* the entry is one of the list the page was drawn from, and administered
SelectedFromList(entry, repos, org_admin) ==
    \E i \in DOMAIN repos : repos[i] = entry /\ Admin(repos[i], org_admin)

\* C25: a delete request is issued exactly under a pressed button and a
\* matching confirmation, for an administered entry of the list
C25_DeleteOnlyConfirmed ==
    [][app.pc = "delete page" /\ app'.pc = "delete done" =>
          /\ last'.op = "delete_repo" =>
                /\ app'.shown # "nothing"
                /\ app'.pressed
                /\ app'.confirmation = app'.selected.name
                /\ last'.arg = app'.selected.name
                /\ SelectedFromList(app'.selected, all_repos, app.org_admin)
          /\ last'.op # "delete_repo" =>
                /\ platform' = platform
                /\ ~(app'.shown # "nothing" /\ app'.pressed
                       /\ app'.confirmation = app'.selected.name)]_vars

\* a confirmed deletion went through
C25_Witness ==
    /\ DeleteRan
    /\ app.requested
    /\ app.removed # {}
    /\ last.status = "ok"

\* the button was pressed over a confirmation that does not match
C25_WitnessAborted ==
    /\ DeleteRan
    /\ app.pressed
    /\ app.confirmation # app.selected.name
    /\ app.confirmation # ""
    /\ last.op # "delete_repo"


(***************************************************************************)
(* C26: at the end of every run of the dashboard, a session that is        *)
(* authenticated has a token stored; consequently initialize_repo_manager  *)
(* returns an adapter or a non-empty error, never (None, None).            *)
(***************************************************************************)
RunEnded == app.ended # "not run"

\* C26: authenticated sessions hold a token, and no run ends without both
\* adapter and error
C26_AuthenticatedHasToken ==
    RunEnded =>
        /\ app.authenticated => Truthy(app.token)
        /\ app.result # "None"
        /\ app.ended # "no adapter"

\* a typed token was refused, in a session that a typed token had logged in
C26_WitnessRefused ==
    /\ RunEnded
    /\ app.result = "Error initializing GitHub connection"
    /\ app.before.typed = TokenTyped
    /\ ~app.authenticated

\* an authenticated session after a token typed at the bottom of a page
C26_WitnessBottom ==
    /\ app.ended = "rerun"
    /\ app.authenticated
    /\ app.token = TokenTyped

(***************************************************************************)
(* C27: when the construction of the adapter fails, the token is removed   *)
(* from the session, authenticated is set to False and the error is        *)
(* returned; a token that failed is never still stored when the run ends.  *)
(***************************************************************************)
ConstructionFailed == RunEnded /\ app.result = "Error initializing GitHub connection"

\* C27: after a failed construction the session holds no token and is not
\* authenticated, and the run ends on the error
C27_FailedTokenRemoved ==
    ConstructionFailed =>
        /\ app.token = None
        /\ ~app.authenticated
        /\ app.ended = "error"
        /\ app.used \notin app.valid

\* the token that failed was the one stored in the session
C27_Witness ==
    /\ ConstructionFailed
    /\ app.before.session = TokenTyped
    /\ app.used = TokenTyped

\* the token that failed came from token.env
C27_WitnessFile ==
    /\ ConstructionFailed
    /\ app.used = TokenOfFile


(***************************************************************************)
(* C28: whenever a run of the dashboard ends without an authenticated      *)
(* adapter, a token input is shown in that run or in the next one, for     *)
(* every source the failed token came from (session, token file, prompt):  *)
(* the user can always supply a new token.                                 *)
(***************************************************************************)
WithoutAdapter(run) == run.ended \in {"error", "no adapter"}
InputShown(run) == run.prompt_shown \/ run.bottom_shown

\* C28: of two runs in a row, the first without adapter, one shows an input
C28_PromptShownByNextRun ==
    (RunEnded /\ WithoutAdapter(app.previous)) =>
        (InputShown(app.previous) \/ InputShown(app))


(***************************************************************************)
(* C29: for every repository list the adapter can hold, the empty list     *)
(* included, the CLI's list action prints the total, public and private    *)
(* counts and exits with code 0.                                           *)
(***************************************************************************)
ListRan == cli.pc = "exited" /\ cli.args.action = "list" /\ cli.report \in {"list", "Error listing repositories"}

\* C29: the list action exits with code 0
C29_ListExitsZero == ListRan => (cli.exit_code = 0 /\ cli.report = "list")

(***************************************************************************)
(* C30: the views agree on one snapshot of the list: the rows of the       *)
(* dataframe with is_owner true are as many as the owned count of          *)
(* get_repo_stats, the other rows as many as its count from organizations, *)
(* and the public and private counts the CLI's list action prints are its  *)
(* Public and Private counts.                                              *)
(***************************************************************************)
Viewed == last.op = "views"

DataViewAgrees(v) ==
    /\ v.data.owned_count = v.stats.Owned
    /\ v.data.non_owned_count = v.stats.FromOrganizations

ListAgrees(v) ==
    /\ v.list.counted
    /\ v.list.Public = v.stats.Public
    /\ v.list.Private = v.stats.Private

\* C30: the Data page and the list action show the counts of get_repo_stats
C30_ViewsAgree == Viewed => (DataViewAgrees(last.value) /\ ListAgrees(last.value))

====
